---- MODULE Spec2Model ----
(***************************************************************************)
(* scarf-go: ScarfEventLogger (scarf/event_logger.go).                     *)
(*                                                                         *)
(* Strings are sequences of one-character strings, durations are whole     *)
(* seconds.  The process environment, the logger object, the goroutines    *)
(* calling it and the HTTP exchange of each call are the state.            *)
(***************************************************************************)
EXTENDS Integers, Sequences, FiniteSets, TLC

VARIABLES
    env,        \* os environment: variable name -> value ("" when unset)
    runtime,    \* runtime.GOOS, runtime.GOARCH, runtime.Version()
    sdkVersion, \* package variable sdkVersion (settable with -ldflags -X)
    urlVerdict, \* net/url and net/http's verdict on the endpoint text
    logger,     \* the *ScarfEventLogger, NoLogger before construction
    ctor,       \* what the constructor was given: its arguments and the env it read
    pc,         \* per goroutine: where it stands in a call
    call,       \* per goroutine: the public method called and its arguments
    local,      \* per goroutine: locals of logEventInternal (timeout, req, client)
    reply,      \* per goroutine: what client.Do came back with in this call
    attempts,   \* per goroutine: client.Do invocations made by this call
    result,     \* per goroutine: the value the last public call returned
    lastLog,    \* last line written to the stderr logger
    calls,      \* send calls started
    dispatched, \* requests handed to the transport
    served2xx,  \* responses with a status in [200,300) received
    nilReturns  \* send calls that returned nil

vars == <<env, runtime, sdkVersion, urlVerdict, logger, ctor, pc, call, local,
          reply, attempts, result, lastLog, calls, dispatched, served2xx, nilReturns>>

(***************************************************************************)
(* Bounds of the model.                                                    *)
(***************************************************************************)
MaxCalls == 2
MaxEnvLen == 2
MaxStrLen == 2
MaxElems == 2
NumGoroutines == 2

(***************************************************************************)
(* Program constants.                                                      *)
(***************************************************************************)
defaultTimeout == 3

(***************************************************************************)
(* strings                                                                 *)
(***************************************************************************)
\* unicode.IsSpace on the characters the model uses.
IsSpace(c) == c \in {" ", "\t", "\n", "\r"}

RECURSIVE TrimLeft(_)
TrimLeft(s) ==
    IF Len(s) > 0 /\ IsSpace(Head(s)) THEN TrimLeft(Tail(s)) ELSE s

RECURSIVE TrimRight(_)
TrimRight(s) ==
    IF Len(s) > 0 /\ IsSpace(s[Len(s)]) THEN TrimRight(SubSeq(s, 1, Len(s) - 1)) ELSE s

\* strings.TrimSpace
TrimSpace(s) == TrimRight(TrimLeft(s))

\* unicode.ToLower on one character.
LowerChar(c) ==
    CASE c = "T" -> "t" [] c = "R" -> "r" [] c = "U" -> "u" [] c = "E" -> "e"
      [] c = "Y" -> "y" [] c = "S" -> "s" [] c = "O" -> "o" [] c = "N" -> "n"
      [] OTHER -> c

\* strings.ToLower
ToLower(s) == [i \in 1..Len(s) |-> LowerChar(s[i])]

\* strings.HasPrefix
HasPrefix(s, prefix) ==
    Len(s) >= Len(prefix) /\ SubSeq(s, 1, Len(prefix)) = prefix

\* strings.TrimPrefix
TrimPrefix(s, prefix) ==
    IF HasPrefix(s, prefix) THEN SubSeq(s, Len(prefix) + 1, Len(s)) ELSE s

\* strings.Contains
Contains(s, substr) ==
    \E i \in 1..(Len(s) + 1) :
        i + Len(substr) - 1 <= Len(s) /\ SubSeq(s, i, i + Len(substr) - 1) = substr

RECURSIVE Concat(_)
Concat(parts) == IF parts = <<>> THEN <<>> ELSE Head(parts) \o Concat(Tail(parts))

\* All strings over alphabet of length at most n.
RECURSIVE StringsUpTo(_, _)
StringsUpTo(alphabet, n) ==
    IF n = 0 THEN {<<>>}
    ELSE LET shorter == StringsUpTo(alphabet, n - 1)
         IN  shorter \cup {Append(s, c) : s \in shorter, c \in alphabet}

(***************************************************************************)
(* environment                                                             *)
(***************************************************************************)
DO_NOT_TRACK == "DO_NOT_TRACK"
SCARF_NO_ANALYTICS == "SCARF_NO_ANALYTICS"
SCARF_VERBOSE == "SCARF_VERBOSE"
EnvKeys == {DO_NOT_TRACK, SCARF_NO_ANALYTICS, SCARF_VERBOSE}

\* os.Getenv: the value, "" when the variable is unset.
Getenv(e, key) == e[key]

\* A plausible slip: "on" left out of the accepted spellings.
envBoolNoOn(e, key) ==
    LET v == ToLower(TrimSpace(Getenv(e, key)))
    IN  v # <<>> /\ (v = <<"1">> \/ v = <<"t","r","u","e">> \/ v = <<"y","e","s">>)

envBool(e, key) ==
    LET v0 == TrimSpace(Getenv(e, key))
    IN  IF v0 = <<>> THEN FALSE
        ELSE LET v == ToLower(v0)
             IN  v = <<"1">> \/ v = <<"t","r","u","e">>
                 \/ v = <<"y","e","s">> \/ v = <<"o","n">>

(***************************************************************************)
(* construction                                                            *)
(***************************************************************************)
NoLogger == [constructed |-> FALSE]

\* timeout is the variadic argument list: <<>> or <<t>>.
NewScarfEventLogger(e, endpointURL, timeout) ==
    LET t == IF Len(timeout) > 0 /\ timeout[1] > 0 THEN timeout[1] ELSE defaultTimeout
        verbose == envBool(e, SCARF_VERBOSE)
        disabled == envBool(e, DO_NOT_TRACK) \/ envBool(e, SCARF_NO_ANALYTICS)
    IN  [constructed |-> TRUE,
         endpointURL |-> endpointURL,
         defaultTimeout |-> t,
         disabled |-> disabled,
         verbose |-> verbose,
         httpClient |-> [Timeout |-> t]]

\* A plausible slip: the opt-out is looked up again on every query.
EnabledFromEnv(s) == ~(envBool(env, DO_NOT_TRACK) \/ envBool(env, SCARF_NO_ANALYTICS))

Enabled(s) == ~s.disabled

(***************************************************************************)
(* value encoding                                                          *)
(***************************************************************************)
Digits == <<"0", "1", "2", "3", "4", "5", "6", "7", "8", "9">>

\* strconv.Itoa / the %d verb / encoding/json on an int.
RECURSIVE Itoa(_)
Itoa(n) ==
    IF n < 0 THEN <<"-">> \o Itoa(0 - n)
    ELSE IF n < 10 THEN <<Digits[n + 1]>>
    ELSE Itoa(n \div 10) \o <<Digits[(n % 10) + 1]>>

\* join the strings of parts with sep between them
RECURSIVE Join(_, _)
Join(parts, sep) ==
    IF parts = <<>> THEN <<>>
    ELSE IF Len(parts) = 1 THEN parts[1]
    ELSE parts[1] \o sep \o Join(Tail(parts), sep)

\* encoding/json's escaping of one character inside a string.
JsonEscapeChar(c) ==
    CASE c = "\"" -> <<"\\", "\"">>
      [] c = "\\" -> <<"\\", "\\">>
      [] OTHER -> <<c>>

JsonString(s) ==
    <<"\"">> \o Concat([i \in 1..Len(s) |-> JsonEscapeChar(s[i])]) \o <<"\"">>

\* Map keys of the model are one-character strings; encoding/json sorts them.
CharRank(c) == CASE c = "a" -> 1 [] c = "b" -> 2 [] OTHER -> 3

RECURSIVE SortedKeys(_)
SortedKeys(keys) ==
    IF keys = {} THEN <<>>
    ELSE LET k == CHOOSE x \in keys : \A y \in keys : CharRank(x) <= CharRank(y)
         IN  <<k>> \o SortedKeys(keys \ {k})

\* json.Marshal on the dynamic types of the model: [err, b].
jsonMarshal(v) ==
    CASE v.k = "int" -> [err |-> FALSE, b |-> Itoa(v.n)]
      [] v.k = "bool" ->
            [err |-> FALSE,
             b |-> IF v.b THEN <<"t","r","u","e">> ELSE <<"f","a","l","s","e">>]
      [] v.k = "nil" -> [err |-> FALSE, b |-> <<"n","u","l","l">>]
      [] v.k = "namedString" -> [err |-> FALSE, b |-> JsonString(v.s)]
      [] v.k = "[]int" ->
            [err |-> FALSE,
             b |-> <<"[">> \o Join([i \in 1..Len(v.xs) |-> Itoa(v.xs[i])], <<",">>)
                   \o <<"]">>]
      [] v.k = "map[string]string" ->
            LET ks == SortedKeys(DOMAIN v.m)
            IN  [err |-> FALSE,
                 b |-> <<"{">>
                       \o Join([i \in 1..Len(ks) |->
                                   JsonString(<<ks[i]>>) \o <<":">> \o JsonString(v.m[ks[i]])],
                               <<",">>)
                       \o <<"}">>]
      [] OTHER -> [err |-> TRUE, b |-> <<>>]   \* chan, func: unsupported type

\* stringerType.String of the package's tests: "stringer-%d".
String(v) == <<"s","t","r","i","n","g","e","r","-">> \o Itoa(v.n)

\* fmt.Sprint on a value json.Marshal rejects (a channel prints as an address).
Sprint(v) == <<"0","x","c","0">>

\* A plausible slip: quotes trimmed off every value, plain strings included.
stringifyParamTrimAll(v) ==
    LET s == IF v.k = "string" THEN v.s
             ELSE IF v.k = "Stringer" THEN String(v)
             ELSE IF jsonMarshal(v).err THEN Sprint(v) ELSE jsonMarshal(v).b
    IN  IF Len(s) >= 2 /\ s[1] = "\"" /\ s[Len(s)] = "\"" THEN SubSeq(s, 2, Len(s) - 1)
        ELSE s

stringifyParam(v) ==
    CASE v.k = "string" -> v.s
      [] v.k = "Stringer" -> String(v)
      [] OTHER ->
            LET r == jsonMarshal(v)
            IN  IF ~r.err
                THEN LET s == r.b
                     IN  IF Len(s) >= 2 /\ s[1] = "\"" /\ s[Len(s)] = "\""
                         THEN SubSeq(s, 2, Len(s) - 1)
                         ELSE s
                ELSE Sprint(v)

(***************************************************************************)
(* query string                                                            *)
(***************************************************************************)
Unreserved ==
    {Digits[i] : i \in 1..10}
    \cup {"a","b","c","d","e","f","g","h","i","k","l","n","o","r","s","t","u","x","y",
          "-", "_", ".", "~"}

HexOf(c) ==
    CASE c = "\"" -> <<"2","2">> [] c = "%" -> <<"2","5">> [] c = "+" -> <<"2","B">>
      [] c = "," -> <<"2","C">> [] c = ":" -> <<"3","A">> [] c = "[" -> <<"5","B">>
      [] c = "\\" -> <<"5","C">> [] c = "]" -> <<"5","D">> [] c = "{" -> <<"7","B">>
      [] c = "}" -> <<"7","D">> [] OTHER -> <<"3","F">>

Escaped == {"\"", "%", "+", ",", ":", "[", "\\", "]", "{", "}"}

\* url.QueryEscape
QueryEscape(s) ==
    Concat([i \in 1..Len(s) |->
               IF s[i] \in Unreserved THEN <<s[i]>>
               ELSE IF s[i] = " " THEN <<"+">>
               ELSE <<"%">> \o HexOf(s[i])])

\* url.QueryUnescape
RECURSIVE QueryUnescape(_)
QueryUnescape(s) ==
    IF s = <<>> THEN <<>>
    ELSE IF Head(s) = "+" THEN <<" ">> \o QueryUnescape(Tail(s))
    ELSE IF Head(s) = "%" /\ Len(s) >= 3
         THEN LET h == SubSeq(s, 2, 3)
                  c == IF \E x \in Escaped : HexOf(x) = h
                       THEN CHOOSE x \in Escaped : HexOf(x) = h
                       ELSE "?"
              IN  <<c>> \o QueryUnescape(SubSeq(s, 4, Len(s)))
    ELSE <<Head(s)>> \o QueryUnescape(Tail(s))

\* properties is [isNil, kv]: a nil map is ranged over like an empty one.
\* q.Set(k, stringifyParam(v)) for every property, then q.Encode(): the encoded
\* pairs of the request's query, by key.
encodeQuery(properties) ==
    LET kv == IF properties.isNil THEN <<>> ELSE properties.kv
    IN  [k \in DOMAIN kv |-> QueryEscape(stringifyParam(kv[k]))]

\* r.URL.Query().Get(k) on the receiving side
QueryGet(rawQuery, k) ==
    IF k \in DOMAIN rawQuery THEN QueryUnescape(rawQuery[k]) ELSE <<>>

(***************************************************************************)
(* User-Agent                                                              *)
(***************************************************************************)
buildUserAgent ==
    LET osName == IF runtime.GOOS = <<"d","a","r","w","i","n">>
                  THEN <<"m","a","c","O","S">> ELSE runtime.GOOS
        v == IF TrimSpace(sdkVersion) = <<>> THEN <<"d","e","v">> ELSE sdkVersion
        goVer == TrimPrefix(runtime.Version, <<"g","o">>)
    IN  Concat(<< <<"s","c","a","r","f","-","g","o","/">>, v,
                  <<" ","(","o","s","=">>, osName,
                  <<";"," ","a","r","c","h","=">>, runtime.GOARCH,
                  <<";"," ","g","o","=">>, goVer, <<")">> >>)

(***************************************************************************)
(* outcomes of a public call                                               *)
(***************************************************************************)
NoResult == [kind |-> "none"]
Success == [kind |-> "nil"]                                \* return nil
ErrDisabled == [kind |-> "ErrDisabled"]                    \* line 90
MissingEndpoint == [kind |-> "MissingEndpoint"]            \* line 97
InvalidEndpoint == [kind |-> "InvalidEndpoint"]            \* line 110
RequestBuildFailed == [kind |-> "RequestBuildFailed"]      \* line 129
RequestFailed == [kind |-> "RequestFailed"]                \* line 146
NonSuccessStatus(status) == [kind |-> "NonSuccessStatus", status |-> status] \* line 164

NoReply == [kind |-> "none"]
NoCall == [op |-> "none"]
NoLocals == [timeout |-> 0, req |-> [built |-> FALSE], client |-> [copied |-> FALSE]]

(***************************************************************************)
(* the process around the logger                                           *)
(***************************************************************************)
\* os.Setenv / t.Setenv by the host program, at any time.
SetEnv(k, v) ==
    /\ env' = [env EXCEPT ![k] = v]
    /\ UNCHANGED <<runtime, sdkVersion, urlVerdict, logger, ctor, pc, call, local,
                   reply, attempts, result, lastLog, calls, dispatched, served2xx,
                   nilReturns>>

\* logger := NewScarfEventLogger(endpointURL, timeout...)
Construct(endpointURL, timeout) ==
    /\ ~logger.constructed
    /\ logger' = NewScarfEventLogger(env, endpointURL, timeout)
    /\ ctor' = [endpointURL |-> endpointURL, timeout |-> timeout, env |-> env]
    /\ UNCHANGED <<env, runtime, sdkVersion, urlVerdict, pc, call, local, reply,
                   attempts, result, lastLog, calls, dispatched, served2xx, nilReturns>>

\* logger.Enabled()
CallEnabled(p) ==
    /\ logger.constructed
    /\ pc[p] = "idle"
    /\ result' = [result EXCEPT ![p] = [kind |-> "Enabled", value |-> Enabled(logger)]]
    /\ UNCHANGED <<env, runtime, sdkVersion, urlVerdict, logger, ctor, pc, call, local,
                   reply, attempts, lastLog, calls, dispatched, served2xx, nilReturns>>

(***************************************************************************)
(* LogEvent, LogEventWithTimeout                                           *)
(***************************************************************************)
\* The public method hands properties and the timeout it settled on to
\* logEventInternal.
enter(p, op, properties, given, timeout) ==
    /\ logger.constructed
    /\ pc[p] = "idle"
    /\ calls < MaxCalls
    /\ calls' = calls + 1
    /\ pc' = [pc EXCEPT ![p] = "logEventInternal"]
    /\ call' = [call EXCEPT ![p] = [op |-> op, properties |-> properties, timeout |-> given]]
    /\ local' = [local EXCEPT ![p] = [NoLocals EXCEPT !.timeout = timeout]]
    /\ reply' = [reply EXCEPT ![p] = NoReply]
    /\ attempts' = [attempts EXCEPT ![p] = 0]
    /\ result' = [result EXCEPT ![p] = NoResult]
    /\ UNCHANGED <<env, runtime, sdkVersion, urlVerdict, logger, ctor, lastLog,
                   dispatched, served2xx, nilReturns>>

LogEvent(p, properties) ==
    enter(p, "LogEvent", properties, <<>>, logger.defaultTimeout)

\* A plausible slip: only a negative timeout falls back to the default.
LogEventWithTimeoutNegative(p, properties, timeout) ==
    enter(p, "LogEventWithTimeout", properties, <<timeout>>,
          IF timeout < 0 THEN logger.defaultTimeout ELSE timeout)

LogEventWithTimeout(p, properties, timeout) ==
    enter(p, "LogEventWithTimeout", properties, <<timeout>>,
          IF timeout <= 0 THEN logger.defaultTimeout ELSE timeout)

(***************************************************************************)
(* logEventInternal                                                        *)
(***************************************************************************)
\* s.logger.Println / Printf, only when s.verbose
logged(line) == IF logger.verbose THEN line ELSE lastLog

return(p, r, line) ==
    /\ pc' = [pc EXCEPT ![p] = "idle"]
    /\ result' = [result EXCEPT ![p] = r]
    /\ lastLog' = logged(line)
    /\ call' = [call EXCEPT ![p] = NoCall]
    /\ local' = [local EXCEPT ![p] = NoLocals]

\* A plausible slip: the opt-out honoured only inside the verbose branch.
precheckOptOutWhenVerbose(s) ==
    IF s.disabled /\ s.verbose THEN ErrDisabled
    ELSE IF TrimSpace(s.endpointURL) = <<>> THEN MissingEndpoint
    ELSE IF urlVerdict = "parse_error" THEN InvalidEndpoint
    ELSE IF urlVerdict = "build_error" THEN RequestBuildFailed
    ELSE NoResult

\* A plausible slip: the endpoint validated before the opt-out is consulted.
precheckEndpointFirst(s) ==
    IF TrimSpace(s.endpointURL) = <<>> THEN MissingEndpoint
    ELSE IF s.disabled THEN ErrDisabled
    ELSE IF urlVerdict = "parse_error" THEN InvalidEndpoint
    ELSE IF urlVerdict = "build_error" THEN RequestBuildFailed
    ELSE NoResult

\* The early returns of lines 86-130, in the order the code takes them; NoResult
\* when the request is built.  url.Parse and http.NewRequest are library code:
\* whether they accept the endpoint is urlVerdict, fixed for the run.
precheck(s) ==
    IF s.disabled THEN ErrDisabled
    ELSE IF TrimSpace(s.endpointURL) = <<>> THEN MissingEndpoint
    ELSE IF urlVerdict = "parse_error" THEN InvalidEndpoint
    ELSE IF urlVerdict = "build_error" THEN RequestBuildFailed
    ELSE NoResult

precheckLine(r) ==
    CASE r = ErrDisabled -> "analytics disabled via env; not sending event"
      [] r = MissingEndpoint -> "no endpoint URL configured; aborting"
      [] r = InvalidEndpoint -> "invalid endpoint URL"
      [] r = RequestBuildFailed -> "failed to build request"
      [] OTHER -> "payload (query)"

\* lines 86-131: the checks, the query, the request and its User-Agent
prepare(p) ==
    /\ pc[p] = "logEventInternal"
    /\ LET r == precheck(logger)
       IN  IF r # NoResult
           THEN return(p, r, precheckLine(r))
           ELSE /\ local' = [local EXCEPT ![p].req =
                       [built |-> TRUE,
                        method |-> "POST",
                        endpoint |-> logger.endpointURL,
                        rawQuery |-> encodeQuery(call[p].properties),
                        userAgent |-> buildUserAgent,
                        body |-> "nil"]]
                /\ pc' = [pc EXCEPT ![p] = "copyClient"]
                /\ lastLog' = logged(precheckLine(r))
                /\ UNCHANGED <<call, result>>
    /\ UNCHANGED <<env, runtime, sdkVersion, urlVerdict, logger, ctor, reply, attempts,
                   calls, dispatched, served2xx, nilReturns>>

\* A plausible slip: the timeout written into the client every call shares.
copyClientShared(p) ==
    /\ pc[p] = "copyClient"
    /\ logger' = [logger EXCEPT !.httpClient.Timeout = local[p].timeout]
    /\ local' = [local EXCEPT ![p].client = [copied |-> TRUE, Timeout |-> local[p].timeout]]
    /\ pc' = [pc EXCEPT ![p] = "Do"]
    /\ lastLog' = logged("sending event")
    /\ UNCHANGED <<env, runtime, sdkVersion, urlVerdict, ctor, call, reply,
                   attempts, result, calls, dispatched, served2xx, nilReturns>>

\* lines 134-139: client := *s.httpClient; client.Timeout = timeout
copyClient(p) ==
    /\ pc[p] = "copyClient"
    /\ local' = [local EXCEPT ![p].client =
                    [[copied |-> TRUE, Timeout |-> logger.httpClient.Timeout]
                        EXCEPT !.Timeout = local[p].timeout]]
    /\ pc' = [pc EXCEPT ![p] = "Do"]
    /\ lastLog' = logged("sending event")
    /\ UNCHANGED <<env, runtime, sdkVersion, urlVerdict, logger, ctor, call, reply,
                   attempts, result, calls, dispatched, served2xx, nilReturns>>

\* line 141: client.Do(req) hands the request to the transport
Do(p) ==
    /\ pc[p] = "Do"
    /\ pc' = [pc EXCEPT ![p] = "awaitResponse"]
    /\ attempts' = [attempts EXCEPT ![p] = @ + 1]
    /\ dispatched' = dispatched + 1
    /\ UNCHANGED <<env, runtime, sdkVersion, urlVerdict, logger, ctor, call, local,
                   reply, result, lastLog, calls, served2xx, nilReturns>>

\* A plausible slip: a failed request is sent again before giving up.
transportErrorRetry(p) ==
    /\ pc[p] = "awaitResponse"
    /\ reply' = [reply EXCEPT ![p] = [kind |-> "error"]]
    /\ IF attempts[p] < 2
       THEN /\ pc' = [pc EXCEPT ![p] = "Do"]
            /\ UNCHANGED <<result, lastLog, call, local>>
       ELSE return(p, RequestFailed, "request failed")
    /\ UNCHANGED <<env, runtime, sdkVersion, urlVerdict, logger, ctor, attempts, calls,
                   dispatched, served2xx, nilReturns>>

\* lines 142-147: client.Do returned an error (refused, reset, timed out)
transportError(p) ==
    /\ pc[p] = "awaitResponse"
    /\ reply' = [reply EXCEPT ![p] = [kind |-> "error"]]
    /\ return(p, RequestFailed, "request failed")
    /\ UNCHANGED <<env, runtime, sdkVersion, urlVerdict, logger, ctor, attempts, calls,
                   dispatched, served2xx, nilReturns>>

\* A plausible slip: the upper end of the accepted range taken inclusive.
isSuccessInclusive(StatusCode) == StatusCode >= 200 /\ StatusCode <= 300

\* line 154
isSuccess(StatusCode) == StatusCode >= 200 /\ StatusCode < 300

\* lines 148-164: a response came back; its body is closed, its status classified
respond(p, StatusCode) ==
    /\ pc[p] = "awaitResponse"
    /\ reply' = [reply EXCEPT ![p] =
                    [kind |-> "response", StatusCode |-> StatusCode, bodyClosed |-> TRUE]]
    /\ served2xx' = served2xx + (IF StatusCode \in 200..299 THEN 1 ELSE 0)
    /\ IF isSuccess(StatusCode)
       THEN /\ return(p, Success, "event logged successfully")
            /\ nilReturns' = nilReturns + 1
       ELSE /\ return(p, NonSuccessStatus(StatusCode), "non-success status")
            /\ UNCHANGED nilReturns
    /\ UNCHANGED <<env, runtime, sdkVersion, urlVerdict, logger, ctor, attempts, calls,
                   dispatched>>

(***************************************************************************)
(* Spec: one goroutine, every endpoint and every outcome                   *)
(***************************************************************************)
Linux == [GOOS |-> <<"l","i","n","u","x">>, GOARCH |-> <<"a","m","d","6","4">>,
          Version |-> <<"g","o","1",".","2","2">>]
Darwin == [GOOS |-> <<"d","a","r","w","i","n">>, GOARCH |-> <<"a","r","m","6","4">>,
           Version |-> <<"g","o","1",".","2","2">>]
Release == <<"0",".","1",".","0">>     \* var sdkVersion = "0.1.0"

Unset == [k \in EnvKeys |-> <<>>]
Verdicts == {"ok", "parse_error", "build_error"}
Endpoints == {<<>>, <<" ", "\t">>, <<"h">>, <<" ", "h">>}
CtorTimeouts == {<<>>, <<0>>, <<-2>>, <<5>>}
CallTimeouts == {-1, 0, 1}
Statuses == {199, 200, 299, 300, 500}
OnOff == {<<>>, <<"1">>}
EventOk == [isNil |-> FALSE,
            kv |-> [k \in {"event"} |-> [k |-> "string", s |-> <<"o","k">>]]]
NilProperties == [isNil |-> TRUE, kv |-> <<>>]

InitWith(envs, goroutines, verdicts, runtimes, versions) ==
    /\ env \in envs
    /\ runtime \in runtimes
    /\ sdkVersion \in versions
    /\ urlVerdict \in verdicts
    /\ logger = NoLogger
    /\ ctor = [endpointURL |-> <<>>, timeout |-> <<>>, env |-> Unset]
    /\ pc = [p \in goroutines |-> "idle"]
    /\ call = [p \in goroutines |-> NoCall]
    /\ local = [p \in goroutines |-> NoLocals]
    /\ reply = [p \in goroutines |-> NoReply]
    /\ attempts = [p \in goroutines |-> 0]
    /\ result = [p \in goroutines |-> NoResult]
    /\ lastLog = ""
    /\ calls = 0
    /\ dispatched = 0
    /\ served2xx = 0
    /\ nilReturns = 0

Init == InitWith({Unset}, {1}, Verdicts, {Linux}, {Release})

Next ==
    \/ \E k \in EnvKeys, v \in OnOff : SetEnv(k, v)
    \/ \E e \in Endpoints, t \in CtorTimeouts : Construct(e, t)
    \/ \E p \in DOMAIN pc : CallEnabled(p)
    \/ \E p \in DOMAIN pc, props \in {NilProperties, EventOk} : LogEvent(p, props)
    \/ \E p \in DOMAIN pc, props \in {NilProperties, EventOk}, t \in CallTimeouts :
          LogEventWithTimeout(p, props, t)
    \/ \E p \in DOMAIN pc : prepare(p)
    \/ \E p \in DOMAIN pc : copyClient(p)
    \/ \E p \in DOMAIN pc : Do(p)
    \/ \E p \in DOMAIN pc : transportError(p)
    \/ \E p \in DOMAIN pc, st \in Statuses : respond(p, st)

Spec == Init /\ [][Next]_vars

(***************************************************************************)
(* SpecEnv: the opt-out variables at construction, over every short string *)
(* and the usual spellings                                                 *)
(***************************************************************************)
EnvAlphabet == {"1", "o", "n", "N", " "}
EnvWords ==
    {<<"t","r","u","e">>, <<"T","R","U","E">>, <<"T","r","u","e"," ">>,
     <<"y","e","s">>, <<"Y","E","S">>, <<"\t","y","e","s">>, <<"O","N","\n">>,
     <<"t","r","u">>, <<"y","e","s","1">>, <<"0">>, <<"n","o">>,
     <<"f","a","l","s","e">>, <<"o","f","f">>}
EnvValues == StringsUpTo(EnvAlphabet, MaxEnvLen) \cup EnvWords
EnvFew == {<<>>, <<"1">>, <<"0">>, <<" ","o","n"," ">>}
ValidEndpoint == <<"h">>

\* One opt-out variable ranges over EnvValues while the other takes a few values.
EnvCases ==
    {[k \in EnvKeys |-> IF k = DO_NOT_TRACK THEN a
                        ELSE IF k = SCARF_NO_ANALYTICS THEN b ELSE <<>>] :
        a \in EnvValues, b \in EnvFew}
    \cup
    {[k \in EnvKeys |-> IF k = DO_NOT_TRACK THEN b
                        ELSE IF k = SCARF_NO_ANALYTICS THEN a ELSE <<>>] :
        a \in EnvValues, b \in EnvFew}

InitEnv == InitWith(EnvCases, {1}, {"ok"}, {Linux}, {Release})

NextEnv ==
    \/ Construct(ValidEndpoint, <<>>)
    \/ CallEnabled(1)
    \/ LogEvent(1, EventOk)
    \/ \E t \in {0, 1} : LogEventWithTimeout(1, NilProperties, t)
    \/ prepare(1)
    \/ copyClient(1)
    \/ Do(1)
    \/ transportError(1)
    \/ \E st \in {200, 500} : respond(1, st)

SpecEnv == InitEnv /\ [][NextEnv]_vars

(***************************************************************************)
(* SpecConc: several goroutines share one enabled logger                   *)
(***************************************************************************)
Goroutines == 1..NumGoroutines

InitConc == InitWith({Unset}, Goroutines, {"ok"}, {Linux}, {Release})

NextConc ==
    \/ \E t \in {<<>>, <<5>>} : Construct(ValidEndpoint, t)
    \/ \E p \in Goroutines : LogEvent(p, EventOk)
    \/ \E p \in Goroutines, t \in {0, 1, 2} : LogEventWithTimeout(p, EventOk, t)
    \/ \E p \in Goroutines : prepare(p)
    \/ \E p \in Goroutines : copyClient(p)
    \/ \E p \in Goroutines : Do(p)
    \/ \E p \in Goroutines : transportError(p)
    \/ \E p \in Goroutines, st \in {200, 500} : respond(p, st)

SpecConc == InitConc /\ [][NextConc]_vars

(***************************************************************************)
(* SpecWire: what goes on the wire, over the dynamic types a property may  *)
(* have and the platforms the SDK is built for                             *)
(***************************************************************************)
Hello == <<"h","e","l","l","o">>
StringValues == {[k |-> "string", s |-> x] : x \in StringsUpTo({"a", "\"", " "}, MaxStrLen) \cup {Hello}}
NamedStringValues == {[k |-> "namedString", s |-> x] : x \in StringsUpTo({"a", "\"", "\\"}, MaxStrLen)}
IntValues == {[k |-> "int", n |-> x] : x \in {-1, 0, 7, 42, 100}}
BoolValues == {[k |-> "bool", b |-> x] : x \in BOOLEAN}
StringerValues == {[k |-> "Stringer", n |-> x] : x \in {1, 42}}
SliceValues == {[k |-> "[]int", xs |-> x] : x \in StringsUpTo({1, 2, 3}, MaxElems) \cup {<<1, 2, 3>>}}
MapValues ==
    {[k |-> "map[string]string", m |-> x] :
        x \in UNION {[ks -> {<<"b">>, <<"\"">>}] : ks \in SUBSET {"a", "b"}}}
Values ==
    StringValues \cup NamedStringValues \cup IntValues \cup BoolValues \cup StringerValues
    \cup SliceValues \cup MapValues \cup {[k |-> "nil"], [k |-> "chan"]}

\* the property map of TestLogEvent_QueryEncoding
TestProperties ==
    [isNil |-> FALSE,
     kv |-> [k \in {"s", "i", "b", "arr", "obj", "str"} |->
               CASE k = "s" -> [k |-> "string", s |-> Hello]
                 [] k = "i" -> [k |-> "int", n |-> 42]
                 [] k = "b" -> [k |-> "bool", b |-> TRUE]
                 [] k = "arr" -> [k |-> "[]int", xs |-> <<1, 2, 3>>]
                 [] k = "obj" -> [k |-> "map[string]string", m |-> [a \in {"a"} |-> <<"b">>]]
                 [] OTHER -> [k |-> "Stringer", n |-> 1]]]

WireProperties ==
    {[isNil |-> FALSE, kv |-> [k \in {"v"} |-> x]] : x \in Values}
    \cup {TestProperties, NilProperties, [isNil |-> FALSE, kv |-> <<>>]}

InitWire ==
    InitWith({Unset}, {1}, {"ok"}, {Linux, Darwin}, {Release, <<>>, <<" ">>})

NextWire ==
    \/ Construct(ValidEndpoint, <<>>)
    \/ \E props \in WireProperties : LogEvent(1, props)
    \/ prepare(1)
    \/ copyClient(1)
    \/ Do(1)
    \/ transportError(1)
    \/ \E st \in {200, 500} : respond(1, st)

SpecWire == InitWire /\ [][NextWire]_vars

(***************************************************************************)
(* The receiving side of the package's tests: json.Unmarshal of a query    *)
(* parameter into []int and into map[string]string.                        *)
(***************************************************************************)
IsDigit(c) == \E i \in 1..10 : Digits[i] = c
DigitValue(c) == (CHOOSE i \in 1..10 : Digits[i] = c) - 1

RECURSIVE ParseDigits(_)
ParseDigits(s) ==
    IF Len(s) = 1 THEN DigitValue(s[1])
    ELSE 10 * ParseDigits(SubSeq(s, 1, Len(s) - 1)) + DigitValue(s[Len(s)])

\* a JSON integer: [ok, n]
ParseInt(s) ==
    LET neg == Len(s) > 0 /\ s[1] = "-"
        ds == IF neg THEN Tail(s) ELSE s
    IN  IF Len(ds) > 0 /\ (\A i \in 1..Len(ds) : IsDigit(ds[i]))
           /\ (Len(ds) > 1 => ds[1] # "0")
        THEN [ok |-> TRUE, n |-> IF neg THEN 0 - ParseDigits(ds) ELSE ParseDigits(ds)]
        ELSE [ok |-> FALSE, n |-> 0]

\* the pieces of s between occurrences of the character sep
RECURSIVE SplitOn(_, _)
SplitOn(s, sep) ==
    IF \E i \in 1..Len(s) : s[i] = sep
    THEN LET i == CHOOSE i \in 1..Len(s) : s[i] = sep /\ \A j \in 1..(i - 1) : s[j] # sep
         IN  <<SubSeq(s, 1, i - 1)>> \o SplitOn(SubSeq(s, i + 1, Len(s)), sep)
    ELSE <<s>>

\* the characters of a JSON string body, escapes undone; <<"?">> on a bad escape
RECURSIVE JsonUnescape(_)
JsonUnescape(s) ==
    IF s = <<>> THEN <<>>
    ELSE IF Head(s) = "\\"
         THEN IF Len(s) >= 2 /\ s[2] \in {"\"", "\\"}
              THEN <<s[2]>> \o JsonUnescape(SubSeq(s, 3, Len(s)))
              ELSE <<"?">>
    ELSE IF Head(s) = "\"" THEN <<"?">>
    ELSE <<Head(s)>> \o JsonUnescape(Tail(s))

\* a JSON string literal: [ok, s]
ParseString(s) ==
    IF Len(s) >= 2 /\ s[1] = "\"" /\ s[Len(s)] = "\""
       /\ (LET body == SubSeq(s, 2, Len(s) - 1)
           IN  Len(body) = 0 \/ body[Len(body)] # "\\"
               \/ (Len(body) >= 2 /\ body[Len(body) - 1] = "\\"))
       /\ "?" \notin {JsonUnescape(SubSeq(s, 2, Len(s) - 1))[i] :
                         i \in 1..Len(JsonUnescape(SubSeq(s, 2, Len(s) - 1)))}
    THEN [ok |-> TRUE, s |-> JsonUnescape(SubSeq(s, 2, Len(s) - 1))]
    ELSE [ok |-> FALSE, s |-> <<>>]

\* json.Unmarshal(b, &arr) with arr []int: [ok, xs]
ParseIntArray(s) ==
    IF Len(s) >= 2 /\ s[1] = "[" /\ s[Len(s)] = "]"
    THEN LET inner == SubSeq(s, 2, Len(s) - 1)
             pieces == IF inner = <<>> THEN <<>> ELSE SplitOn(inner, ",")
         IN  IF \A i \in 1..Len(pieces) : ParseInt(pieces[i]).ok
             THEN [ok |-> TRUE, xs |-> [i \in 1..Len(pieces) |-> ParseInt(pieces[i]).n]]
             ELSE [ok |-> FALSE, xs |-> <<>>]
    ELSE [ok |-> FALSE, xs |-> <<>>]

\* json.Unmarshal(b, &obj) with obj map[string]string of one-character keys: [ok, m]
ParseStringMap(s) ==
    IF Len(s) >= 2 /\ s[1] = "{" /\ s[Len(s)] = "}"
    THEN LET inner == SubSeq(s, 2, Len(s) - 1)
             pieces == IF inner = <<>> THEN <<>> ELSE SplitOn(inner, ",")
             key(i) == ParseString(SplitOn(pieces[i], ":")[1])
             val(i) == ParseString(SplitOn(pieces[i], ":")[2])
         IN  IF \A i \in 1..Len(pieces) :
                    /\ Len(SplitOn(pieces[i], ":")) = 2
                    /\ key(i).ok /\ Len(key(i).s) = 1
                    /\ val(i).ok
             THEN [ok |-> TRUE,
                   m |-> [c \in {key(i).s[1] : i \in 1..Len(pieces)} |->
                            val(CHOOSE i \in 1..Len(pieces) : key(i).s[1] = c).s]]
             ELSE [ok |-> FALSE, m |-> <<>>]
    ELSE [ok |-> FALSE, m |-> <<>>]

(***************************************************************************)
(* Vocabulary of the properties                                            *)
(***************************************************************************)
TrueWords == {<<"1">>, <<"t","r","u","e">>, <<"y","e","s">>, <<"o","n">>}

\* v equals, ignoring case, one of 1, true, yes, on
EqualsTrueWord(v) == \E w \in TrueWords : ToLower(v) = w

\* v is all whitespace (the empty string included)
Blank(v) == \A i \in 1..Len(v) : IsSpace(v[i])

\* v without its leading and trailing whitespace
Stripped(v) ==
    IF Blank(v) THEN <<>>
    ELSE LET first == CHOOSE i \in 1..Len(v) :
                          ~IsSpace(v[i]) /\ \A j \in 1..(i - 1) : IsSpace(v[j])
             last == CHOOSE i \in 1..Len(v) :
                          ~IsSpace(v[i]) /\ \A j \in (i + 1)..Len(v) : IsSpace(v[j])
         IN  SubSeq(v, first, last)

\* the timeout the constructor was asked for, 3 seconds when none or not positive
ConfiguredDefault ==
    IF ctor.timeout # <<>> /\ ctor.timeout[1] > 0 THEN ctor.timeout[1] ELSE 3

\* goroutine p's last public call was a send and has returned
SendReturned(p) == pc[p] = "idle" /\ result[p].kind \notin {"none", "Enabled"}

\* goroutine p is inside a send that has not yet reached client.Do
BeforeDo(p) == pc[p] \in {"logEventInternal", "copyClient", "Do"}

EarlyOutcomes == {ErrDisabled, MissingEndpoint, InvalidEndpoint, RequestBuildFailed}

(***************************************************************************)
(* C1.  A logger constructed while DO_NOT_TRACK or SCARF_NO_ANALYTICS      *)
(* holds one of 1, true, yes, on (in any case) reports Enabled() = false,  *)
(* returns ErrDisabled from every send that has returned, and never hands  *)
(* a request to the transport.                                             *)
(***************************************************************************)
C1_OptOutDisables ==
    (logger.constructed
        /\ (EqualsTrueWord(ctor.env[DO_NOT_TRACK])
            \/ EqualsTrueWord(ctor.env[SCARF_NO_ANALYTICS])))
    => /\ dispatched = 0
       /\ \A p \in DOMAIN pc :
            /\ result[p].kind = "Enabled" => result[p].value = FALSE
            /\ SendReturned(p) => result[p] = ErrDisabled
            /\ attempts[p] = 0
            /\ pc[p] \in {"idle", "logEventInternal"}

C1_Witness ==
    /\ EqualsTrueWord(ctor.env[SCARF_NO_ANALYTICS])
    /\ ~EqualsTrueWord(ctor.env[DO_NOT_TRACK])
    /\ calls = 2
    /\ result[1] = ErrDisabled
    /\ pc[1] = "idle"

(***************************************************************************)
(* C2 as stated.  The logger is disabled exactly when one of the two       *)
(* opt-out variables equals, ignoring case, one of 1, true, yes, on; every *)
(* other value counts as false, and Enabled() answers accordingly.         *)
(***************************************************************************)
C2_DisabledIffEqualsTrueWord ==
    logger.constructed
    => LET optOut == EqualsTrueWord(ctor.env[DO_NOT_TRACK])
                     \/ EqualsTrueWord(ctor.env[SCARF_NO_ANALYTICS])
       IN  /\ logger.disabled = optOut
           /\ \A p \in DOMAIN pc :
                result[p].kind = "Enabled" => result[p].value = ~optOut

(***************************************************************************)
(* C2 amended.  The logger is disabled exactly when one of the two opt-out *)
(* variables, with leading and trailing whitespace removed, equals,        *)
(* ignoring case, one of 1, true, yes, on.                                 *)
(***************************************************************************)
C2_DisabledIffStrippedTrueWord ==
    logger.constructed
    => LET optOut == EqualsTrueWord(Stripped(ctor.env[DO_NOT_TRACK]))
                     \/ EqualsTrueWord(Stripped(ctor.env[SCARF_NO_ANALYTICS]))
       IN  /\ logger.disabled = optOut
           /\ \A p \in DOMAIN pc :
                result[p].kind = "Enabled" => result[p].value = ~optOut

C2_Witness ==
    /\ logger.constructed
    /\ ctor.env[DO_NOT_TRACK] = <<"o", "N">>
    /\ ctor.env[SCARF_NO_ANALYTICS] = <<"0">>
    /\ result[1] = [kind |-> "Enabled", value |-> FALSE]

(***************************************************************************)
(* C3.  The disabled flag is the one computed from the environment the     *)
(* constructor read; whatever the environment holds later, Enabled()       *)
(* answers with it and every returned send was refused exactly when it is  *)
(* set.                                                                    *)
(***************************************************************************)
C3_EnablementFrozen ==
    logger.constructed
    => LET atConstruction == envBool(ctor.env, DO_NOT_TRACK)
                             \/ envBool(ctor.env, SCARF_NO_ANALYTICS)
       IN  /\ logger.disabled = atConstruction
           /\ logger.verbose = envBool(ctor.env, SCARF_VERBOSE)
           /\ \A p \in DOMAIN pc :
                /\ result[p].kind = "Enabled" => result[p].value = ~atConstruction
                /\ SendReturned(p) => ((result[p] = ErrDisabled) <=> atConstruction)

C3_Witness ==
    /\ logger.constructed
    /\ ctor.env = Unset
    /\ env[DO_NOT_TRACK] = <<"1">>
    /\ env[SCARF_VERBOSE] = <<"1">>
    /\ calls = 2
    /\ result[1] = [kind |-> "Enabled", value |-> TRUE]

(***************************************************************************)
(* C4.  A returned send carries the outcome of the first failing check in  *)
(* the order Disabled, MissingEndpoint, InvalidEndpoint,                   *)
(* RequestBuildFailed, RequestFailed, NonSuccessStatus, else Success; the  *)
(* four early outcomes come with no request handed to the transport.       *)
(***************************************************************************)
C4_Expected(p) ==
    IF logger.disabled THEN ErrDisabled
    ELSE IF Blank(logger.endpointURL) THEN MissingEndpoint
    ELSE IF urlVerdict = "parse_error" THEN InvalidEndpoint
    ELSE IF urlVerdict = "build_error" THEN RequestBuildFailed
    ELSE IF reply[p].kind = "error" THEN RequestFailed
    ELSE IF reply[p].kind = "response" /\ reply[p].StatusCode \notin 200..299
         THEN NonSuccessStatus(reply[p].StatusCode)
    ELSE Success

C4_OutcomePrecedence ==
    \A p \in DOMAIN pc :
        SendReturned(p)
        => /\ result[p] = C4_Expected(p)
           /\ result[p] \in EarlyOutcomes => (attempts[p] = 0 /\ reply[p] = NoReply)
           /\ result[p] \notin EarlyOutcomes => reply[p] # NoReply

C4_Witness ==
    /\ logger.constructed
    /\ logger.disabled
    /\ logger.endpointURL = <<>>
    /\ urlVerdict = "parse_error"
    /\ SendReturned(1)
    /\ result[1] = ErrDisabled

(***************************************************************************)
(* C5.  Once a response has been received the send returns nil exactly     *)
(* when its status code lies in [200,300), and otherwise the               *)
(* non-success-status error carrying that status.                          *)
(***************************************************************************)
C5_StatusClassification ==
    \A p \in DOMAIN pc :
        (SendReturned(p) /\ reply[p].kind = "response")
        => /\ (result[p] = Success) <=> (reply[p].StatusCode \in 200..299)
           /\ reply[p].StatusCode \notin 200..299
                => result[p] = NonSuccessStatus(reply[p].StatusCode)

C5_Witness ==
    /\ SendReturned(1)
    /\ reply[1].kind = "response"
    /\ reply[1].StatusCode = 300
    /\ result[1] = NonSuccessStatus(300)

(***************************************************************************)
(* C7.  A request sent by LogEvent, or by LogEventWithTimeout with a       *)
(* timeout <= 0, goes out with the configured default timeout (the         *)
(* constructor's when positive, else 3 seconds); every request goes out    *)
(* with a positive timeout.                                                *)
(***************************************************************************)
C7_NonPositiveTimeoutIsDefault ==
    \A p \in DOMAIN pc :
        pc[p] = "awaitResponse"
        => /\ local[p].client.Timeout > 0
           /\ (call[p].op = "LogEvent"
                  \/ (call[p].op = "LogEventWithTimeout" /\ call[p].timeout[1] <= 0))
                => local[p].client.Timeout = ConfiguredDefault

C7_Witness ==
    /\ pc[1] = "awaitResponse"
    /\ ctor.timeout = <<5>>
    /\ call[1].op = "LogEventWithTimeout"
    /\ call[1].timeout = <<0>>
    /\ local[1].client.Timeout = 5

(***************************************************************************)
(* C8 as stated.  Every request built is a POST whose User-Agent starts    *)
(* with "scarf-go/" and contains "(platform=", "arch=" and "go=".          *)
(***************************************************************************)
C8_UserAgentHasPlatform ==
    \A p \in DOMAIN pc :
        local[p].req.built
        => /\ local[p].req.method = "POST"
           /\ HasPrefix(local[p].req.userAgent, <<"s","c","a","r","f","-","g","o","/">>)
           /\ Contains(local[p].req.userAgent,
                       <<"(","p","l","a","t","f","o","r","m","=">>)
           /\ Contains(local[p].req.userAgent, <<"a","r","c","h","=">>)
           /\ Contains(local[p].req.userAgent, <<"g","o","=">>)

(***************************************************************************)
(* C10.  A send calls client.Do at most once; on an enabled logger whose   *)
(* endpoint passes every check the requests handed to the transport are    *)
(* exactly the sends that got as far as client.Do; and the sends that      *)
(* returned nil are exactly the 2xx responses received, one each.          *)
(***************************************************************************)
C10_OneAttemptPerCall ==
    /\ \A p \in DOMAIN pc : attempts[p] <= 1
    /\ nilReturns = served2xx
    /\ dispatched <= calls
    /\ (logger.constructed /\ ~logger.disabled /\ ~Blank(logger.endpointURL)
            /\ urlVerdict = "ok")
        => dispatched = calls - Cardinality({p \in DOMAIN pc : BeforeDo(p)})

C10_Witness ==
    /\ calls = 2
    /\ dispatched = 2
    /\ served2xx = 2
    /\ nilReturns = 2
    /\ result[1] = Success

(***************************************************************************)
(* C6.  With several goroutines inside LogEvent / LogEventWithTimeout at   *)
(* once, the logger's defaultTimeout and its shared client's Timeout keep  *)
(* the value set at construction, and every request goes out with the      *)
(* timeout of its own call.                                                *)
(***************************************************************************)
C6_OwnTimeout(p) ==
    IF call[p].op = "LogEventWithTimeout" /\ call[p].timeout[1] > 0
    THEN call[p].timeout[1]
    ELSE ConfiguredDefault

C6_SharedTimeoutUntouched ==
    logger.constructed
    => /\ logger.defaultTimeout = ConfiguredDefault
       /\ logger.httpClient.Timeout = ConfiguredDefault
       /\ \A p \in DOMAIN pc :
            pc[p] \in {"Do", "awaitResponse"}
            => local[p].client.Timeout = C6_OwnTimeout(p)

C6_Witness ==
    /\ pc[1] = "awaitResponse"
    /\ pc[2] = "Do"
    /\ local[1].client.Timeout = 1
    /\ local[2].client.Timeout = 5
    /\ logger.httpClient.Timeout = 5

(***************************************************************************)
(* C9.  What the receiver reads back for each property of a request: a     *)
(* string verbatim; a Stringer's String() and not its JSON form; an int as *)
(* its decimal digits; a bool as true or false; a []int and a              *)
(* map[string]string as JSON that parses back to the same value; a         *)
(* JSON-quoted scalar without its surrounding quotes.  Whatever the value, *)
(* the send goes on to the transport.                                      *)
(***************************************************************************)
C9_Rendered(v, got) ==
    CASE v.k = "string" -> got = v.s
      [] v.k = "Stringer" ->
            /\ HasPrefix(got, <<"s","t","r","i","n","g","e","r","-">>)
            /\ ParseInt(TrimPrefix(got, <<"s","t","r","i","n","g","e","r","-">>))
                  = [ok |-> TRUE, n |-> v.n]
            /\ ~ParseInt(got).ok
      [] v.k = "int" -> ParseInt(got) = [ok |-> TRUE, n |-> v.n]
      [] v.k = "bool" ->
            got = IF v.b THEN <<"t","r","u","e">> ELSE <<"f","a","l","s","e">>
      [] v.k = "nil" -> got = <<"n","u","l","l">>
      [] v.k = "[]int" -> ParseIntArray(got) = [ok |-> TRUE, xs |-> v.xs]
      [] v.k = "map[string]string" -> ParseStringMap(got) = [ok |-> TRUE, m |-> v.m]
      [] v.k = "namedString" ->
            ParseString(<<"\"">> \o got \o <<"\"">>) = [ok |-> TRUE, s |-> v.s]
      [] OTHER -> TRUE

====
